---- MODULE Spec2Model ----
(***************************************************************************)
(* Model of the telemetry extension in src/src/main.rs: main's tracer      *)
(* provider lifecycle, the batch handler and its per-record dispatch, and  *)
(* parse_function_log together with the JSON reader it calls.              *)
(*                                                                         *)
(* Text is a sequence of one-character strings, so that find, slicing and  *)
(* the JSON grammar are computed character by character.                   *)
(***************************************************************************)
EXTENDS Integers, Sequences, FiniteSets, TLC

VARIABLES
    pcMain,           \* position of main (lines 34-55)
    init_result,      \* what init_opentelemetry returned to line 42
    provider,         \* the global tracer provider's lifecycle state
    installs,         \* calls of global::set_tracer_provider
    shutdowns,        \* calls of global::shutdown_tracer_provider
    extension_result, \* the value Extension::run resolved to (line 48)
    invocations,      \* handler invocations started so far
    hpc,              \* per handler task: position inside handler
    events,           \* per handler task: the batch it was called with
    rest,             \* per handler task: records the for loop has not consumed
    cx,               \* per handler task: id of the span in_span gave it
    spans,            \* span id -> the span as the tracer sees it
    record,           \* input of a stand-alone parse_function_log call
    attributes,       \* its result
    parsed            \* whether that call has returned

vars == <<pcMain, init_result, provider, installs, shutdowns, extension_result, invocations,
          hpc, events, rest, cx, spans, record, attributes, parsed>>

mainVars == <<pcMain, init_result, provider, installs, shutdowns, extension_result>>
handlerVars == <<invocations, hpc, events, rest, cx, spans>>
parseVars == <<record, attributes, parsed>>

----------------------------------------------------------------------------
(* Bounds of the model.                                                     *)

MaxFrags == 5        \* fragments per enumerated log text
MaxAffix == 2        \* characters before / after an embedded object
MaxBatch == 2        \* records per batch
MaxInvocations == 2  \* handler invocations per run of main

----------------------------------------------------------------------------
(* Text helpers.                                                            *)

Whitespace == {" ", "\n", "\t", "\r"}
Digits == {"0", "1", "2", "3", "4", "5", "6", "7", "8", "9"}

\* str::find(char): 1-based index of the first occurrence, 0 for None.
RECURSIVE FindFrom(_, _, _)
FindFrom(s, c, i) ==
    IF i > Len(s) THEN 0
    ELSE IF s[i] = c THEN i
    ELSE FindFrom(s, c, i + 1)

FindLast(s, c) ==
    IF \E i \in 1..Len(s) : s[i] = c
    THEN CHOOSE i \in 1..Len(s) : s[i] = c /\ \A j \in (i + 1)..Len(s) : s[j] # c
    ELSE 0

find(s, c) == FindFrom(s, c, 1)

\* Byte value of a character, for the ordering of BTreeMap<String, _> keys.
Ascii(c) ==
    CASE c = "\t" -> 9   [] c = "\n" -> 10  [] c = "\r" -> 13  [] c = " " -> 32
      [] c = "\"" -> 34  [] c = "," -> 44   [] c = "0" -> 48   [] c = "1" -> 49
      [] c = "2" -> 50   [] c = "3" -> 51   [] c = "4" -> 52   [] c = "5" -> 53
      [] c = "6" -> 54   [] c = "7" -> 55   [] c = "8" -> 56   [] c = "9" -> 57
      [] c = ":" -> 58   [] c = "_" -> 95   [] c = "a" -> 97
      [] c = "b" -> 98   [] c = "e" -> 101  [] c = "f" -> 102  [] c = "j" -> 106
      [] c = "l" -> 108  [] c = "n" -> 110  [] c = "o" -> 111  [] c = "p" -> 112
      [] c = "r" -> 114  [] c = "s" -> 115  [] c = "t" -> 116  [] c = "u" -> 117
      [] c = "{" -> 123  [] c = "}" -> 125
      [] OTHER -> 127

\* String ordering: byte-wise lexicographic.
RECURSIVE StrLess(_, _)
StrLess(a, b) ==
    IF b = <<>> THEN FALSE
    ELSE IF a = <<>> THEN TRUE
    ELSE IF Ascii(Head(a)) # Ascii(Head(b)) THEN Ascii(Head(a)) < Ascii(Head(b))
    ELSE StrLess(Tail(a), Tail(b))

----------------------------------------------------------------------------
(* serde_json::Value and serde_json::from_str, as called on line 194.      *)
(* A Value is [k, s, m]: k its kind, s the text of a string, number or      *)
(* literal, m the members of an object in key order.                        *)

VString(s) == [k |-> "str", s |-> s, m |-> <<>>]
VNumber(s) == [k |-> "num", s |-> s, m |-> <<>>]
VLiteral(s) == [k |-> "lit", s |-> s, m |-> <<>>]
VObject(m) == [k |-> "obj", s |-> <<>>, m |-> m]

ParseOk(v, pos) == [ok |-> TRUE, val |-> v, pos |-> pos, code |-> "", col |-> 0]
ParseErr(s, code, j) ==
    [ok |-> FALSE, val |-> VLiteral(<<>>), pos |-> j, code |-> code,
     col |-> IF j > Len(s) THEN Len(s) ELSE j]

Peek(s, i) == IF i > Len(s) THEN "EOF" ELSE s[i]

RECURSIVE parse_whitespace(_, _)
parse_whitespace(s, i) ==
    IF i <= Len(s) /\ s[i] \in Whitespace THEN parse_whitespace(s, i + 1) ELSE i

\* Map::insert on a BTreeMap: keys stay sorted, an existing key is overwritten.
RECURSIVE MapInsert(_, _, _)
MapInsert(m, key, value) ==
    IF m = <<>> THEN <<[key |-> key, value |-> value]>>
    ELSE IF Head(m).key = key THEN <<[key |-> key, value |-> value]>> \o Tail(m)
    ELSE IF StrLess(key, Head(m).key) THEN <<[key |-> key, value |-> value]>> \o m
    ELSE <<Head(m)>> \o MapInsert(Tail(m), key, value)

\* A string starting at the opening quote s[i].
parse_str(s, i) ==
    LET close == FindFrom(s, "\"", i + 1) IN
    IF close = 0 THEN ParseErr(s, "EofWhileParsingString", Len(s) + 1)
    ELSE ParseOk(VString(SubSeq(s, i + 1, close - 1)), close + 1)

RECURSIVE DigitsEnd(_, _)
DigitsEnd(s, i) ==
    IF i <= Len(s) /\ s[i] \in Digits THEN DigitsEnd(s, i + 1) ELSE i

\* An unsigned integer starting at the digit s[i].
parse_integer(s, i) ==
    IF s[i] = "0"
    THEN IF Peek(s, i + 1) \in Digits
         THEN ParseErr(s, "InvalidNumber", i + 1)
         ELSE ParseOk(VNumber(<<"0">>), i + 1)
    ELSE LET e == DigitsEnd(s, i) IN ParseOk(VNumber(SubSeq(s, i, e - 1)), e)

\* true / false / null; s[i] is the first letter, already matched.
RECURSIVE parse_ident(_, _, _, _)
parse_ident(s, i, word, n) ==
    IF n > Len(word) THEN ParseOk(VLiteral(word), i + Len(word))
    ELSE IF i + n - 1 > Len(s) THEN ParseErr(s, "EofWhileParsingValue", i + n - 1)
    ELSE IF s[i + n - 1] # word[n] THEN ParseErr(s, "ExpectedSomeIdent", i + n - 1)
    ELSE parse_ident(s, i, word, n + 1)

RECURSIVE parse_value(_, _)
RECURSIVE parse_members(_, _, _, _)

\* MapAccess::next_key_seed's second match and next_value_seed.
parse_member(s, k, m) ==
    LET c == Peek(s, k) IN
    IF c = "\"" THEN
        LET key == parse_str(s, k) IN
        IF ~key.ok THEN key
        ELSE LET l == parse_whitespace(s, key.pos) IN
             IF Peek(s, l) = ":" THEN
                 LET v == parse_value(s, l + 1) IN
                 IF ~v.ok THEN v
                 ELSE parse_members(s, v.pos, FALSE, MapInsert(m, key.val.s, v.val))
             ELSE IF Peek(s, l) = "EOF" THEN ParseErr(s, "EofWhileParsingObject", l)
             ELSE ParseErr(s, "ExpectedColon", l)
    ELSE IF c = "}" THEN ParseErr(s, "TrailingComma", k)
    ELSE IF c = "EOF" THEN ParseErr(s, "EofWhileParsingValue", k)
    ELSE ParseErr(s, "KeyMustBeAString", k)

\* MapAccess::next_key_seed's first match, looping over the members.
parse_members(s, i, first, m) ==
    LET j == parse_whitespace(s, i)
        c == Peek(s, j) IN
    IF c = "EOF" THEN ParseErr(s, "EofWhileParsingObject", j)
    ELSE IF c = "}" THEN ParseOk(VObject(m), j + 1)
    ELSE IF c = "," /\ ~first THEN parse_member(s, parse_whitespace(s, j + 1), m)
    ELSE IF first THEN parse_member(s, j, m)
    ELSE ParseErr(s, "ExpectedObjectCommaOrEnd", j)

\* Deserializer::deserialize_any.
parse_value(s, i) ==
    LET j == parse_whitespace(s, i)
        c == Peek(s, j) IN
    IF c = "EOF" THEN ParseErr(s, "EofWhileParsingValue", j)
    ELSE IF c = "n" THEN parse_ident(s, j, <<"n", "u", "l", "l">>, 2)
    ELSE IF c = "t" THEN parse_ident(s, j, <<"t", "r", "u", "e">>, 2)
    ELSE IF c = "f" THEN parse_ident(s, j, <<"f", "a", "l", "s", "e">>, 2)
    ELSE IF c \in Digits THEN parse_integer(s, j)
    ELSE IF c = "\"" THEN parse_str(s, j)
    ELSE IF c = "{" THEN parse_members(s, j + 1, TRUE, <<>>)
    ELSE ParseErr(s, "ExpectedSomeValue", j)

\* Deserializer::end: only whitespace may follow the value.
EndLenient(s, r) == r

end(s, r) ==
    IF ~r.ok THEN r
    ELSE LET j == parse_whitespace(s, r.pos) IN
         IF j <= Len(s) THEN ParseErr(s, "TrailingCharacters", j) ELSE r

from_str(s) == end(s, parse_value(s, 1))

\* Value::to_string: compact JSON, object members in key order.
RECURSIVE to_string(_)
RECURSIVE members_to_string(_)
members_to_string(m) ==
    IF m = <<>> THEN <<>>
    ELSE <<"\"">> \o Head(m).key \o <<"\"", ":">> \o to_string(Head(m).value)
         \o (IF Len(m) > 1 THEN <<",">> ELSE <<>>) \o members_to_string(Tail(m))

to_string(v) ==
    IF v.k = "str" THEN <<"\"">> \o v.s \o <<"\"">>
    ELSE IF v.k = "obj" THEN <<"{">> \o members_to_string(v.m) \o <<"}">>
    ELSE v.s

\* format!("{:?}", e) of a serde_json::Error: Error("<code>", line: 1, column: c).
\* Kept as tokens; no text of the input alphabet can equal it.
DebugError(r) == <<"Error(", r.code, ", line: 1, column: ", ToString(r.col), ")">>

----------------------------------------------------------------------------
(* parse_function_log (lines 191-220).                                      *)

KeyValue(key, value) == [key |-> key, value |-> value]

Key_raw_log == <<"r", "a", "w", "_", "l", "o", "g">>
Key_error == <<"e", "r", "r", "o", "r">>

\* Lines 198-204: one attribute per member, strings copied, others stringified.
RECURSIVE MapAttributes(_)
MapAttributes(m) ==
    IF m = <<>> THEN <<>>
    ELSE <<KeyValue(Head(m).key,
                    IF Head(m).value.k = "str" THEN Head(m).value.s
                    ELSE to_string(Head(m).value))>>
         \o MapAttributes(Tail(m))

json_start_last(rec) == FindLast(rec, "{")

\* Line 192: record.find('{').
json_start(rec) == find(rec, "{")

parse_error_sliced(rec, js, r) ==
    <<KeyValue(Key_error, DebugError(r)),
      KeyValue(Key_raw_log, SubSeq(rec, js, Len(rec)))>>

\* Lines 208-214: the Err arm.
parse_error(rec, js, r) ==
    <<KeyValue(Key_error, DebugError(r)), KeyValue(Key_raw_log, rec)>>

no_json_found_error(rec) ==
    <<KeyValue(Key_error, <<>>), KeyValue(Key_raw_log, rec)>>

\* Lines 216-219: the else branch.
no_json_found(rec) == <<KeyValue(Key_raw_log, rec)>>

parse_function_log(rec) ==
    LET js == json_start(rec) IN
    IF js # 0 THEN
        LET json_str == SubSeq(rec, js, Len(rec))
            r == from_str(json_str) IN
        IF r.ok THEN
            IF r.val.k = "obj" THEN MapAttributes(r.val.m) ELSE <<>>
        ELSE parse_error(rec, js, r)
    ELSE no_json_found(rec)

----------------------------------------------------------------------------
(* format!("{:?}", _) of the field types of LambdaTelemetryRecord.          *)

Key_init_type == <<"i", "n", "i", "t", "_", "t", "y", "p", "e">>
Key_phase == <<"p", "h", "a", "s", "e">>
Key_runtime_version == <<"r", "u", "n", "t", "i", "m", "e", "_", "v", "e", "r", "s", "i", "o", "n">>
Key_runtime_version_arn == <<"r", "u", "n", "t", "i", "m", "e", "_", "v", "e", "r", "s", "i", "o", "n", "_", "a", "r", "n">>
Key_duration == <<"d", "u", "r", "a", "t", "i", "o", "n">>
Key_request_id == <<"r", "e", "q", "u", "e", "s", "t", "_", "i", "d">>
Key_event == <<"e", "v", "e", "n", "t">>

S_None == <<"N", "o", "n", "e">>
S_SomeOpen == <<"S", "o", "m", "e", "(">>
S_Close == <<")">>
S_OnDemand == <<"O", "n", "D", "e", "m", "a", "n", "d">>
S_SnapStart == <<"S", "n", "a", "p", "S", "t", "a", "r", "t">>
S_Init == <<"I", "n", "i", "t">>
S_Invoke == <<"I", "n", "v", "o", "k", "e">>
S_RuntimeDoneMetricsOpen == <<"R", "u", "n", "t", "i", "m", "e", "D", "o", "n", "e", "M", "e", "t", "r", "i", "c", "s", " ", "{", " ", "d", "u", "r", "a", "t", "i", "o", "n", "_", "m", "s", ":", " ">>
S_RuntimeDoneMetricsClose == <<",", " ", "p", "r", "o", "d", "u", "c", "e", "d", "_", "b", "y", "t", "e", "s", ":", " ", "N", "o", "n", "e", " ", "}">>
S_LambdaTelemetryOpen == <<"L", "a", "m", "b", "d", "a", "T", "e", "l", "e", "m", "e", "t", "r", "y", " ", "{", " ", "t", "i", "m", "e", ":", " ">>
S_RecordField == <<",", " ", "r", "e", "c", "o", "r", "d", ":", " ">>
S_StructClose == <<" ", "}">>
S_Extension == <<"E", "x", "t", "e", "n", "s", "i", "o", "n", "(">>
S_PlatformLogsDropped == <<"P", "l", "a", "t", "f", "o", "r", "m", "L", "o", "g", "s", "D", "r", "o", "p", "p", "e", "d", " ", "{", " ", "r", "e", "a", "s", "o", "n", ":", " ">>

\* Debug of a String: quoted, with quotes and backslashes escaped.
RECURSIVE EscapeDebug(_)
EscapeDebug(s) ==
    IF s = <<>> THEN <<>>
    ELSE (IF Head(s) \in {"\"", "\\"} THEN <<"\\", Head(s)>> ELSE <<Head(s)>>)
         \o EscapeDebug(Tail(s))

DebugString(s) == <<"\"">> \o EscapeDebug(s) \o <<"\"">>

\* Debug of an Option<String>; o is [some, v].
DebugOptionString(o) ==
    IF o.some THEN S_SomeOpen \o DebugString(o.v) \o S_Close ELSE S_None

\* Debug of the unit variants of InitType and InitPhase.
DebugInitType(t) == IF t = "OnDemand" THEN S_OnDemand ELSE S_SnapStart
DebugInitPhase(p) == IF p = "Init" THEN S_Init ELSE S_Invoke

DigitChar(d) == CASE d = 0 -> "0" [] d = 1 -> "1" [] d = 2 -> "2" [] d = 3 -> "3"
                  [] d = 4 -> "4" [] d = 5 -> "5" [] d = 6 -> "6" [] d = 7 -> "7"
                  [] d = 8 -> "8" [] OTHER -> "9"

\* Debug of an f64 held in tenths below 10.0: 15 is 1.5 and 20 is 2.0.
DebugF64(t) == <<DigitChar(t \div 10), ".", DigitChar(t % 10)>>

\* Debug of Option<RuntimeDoneMetrics>; m is [some, duration_ms].
DebugRuntimeDoneMetrics(m) ==
    IF m.some
    THEN S_SomeOpen \o S_RuntimeDoneMetricsOpen \o DebugF64(m.duration_ms)
         \o S_RuntimeDoneMetricsClose \o S_Close
    ELSE S_None

\* Debug of a whole LambdaTelemetry whose record no arm matched.
DebugEvent(event) ==
    S_LambdaTelemetryOpen \o event.time \o S_RecordField
    \o (IF event.record.variant = "Extension"
        THEN S_Extension \o DebugString(event.record.text) \o S_Close
        ELSE S_PlatformLogsDropped \o DebugString(event.record.reason) \o S_StructClose)
    \o S_StructClose

----------------------------------------------------------------------------
(* handler's match (lines 86-184): one operator per arm, each giving the   *)
(* name and attributes passed to span.add_event.                            *)

SpanEvent(name, attrs) == [name |-> name, attributes |-> attrs]

\* Lines 87-91.
function_log(text) == SpanEvent("function_log", parse_function_log(text))

\* Lines 92-111.
init_start(r) ==
    SpanEvent("init_start",
        <<KeyValue(Key_init_type, DebugInitType(r.initialization_type)),
          KeyValue(Key_phase, DebugInitPhase(r.phase)),
          KeyValue(Key_runtime_version, DebugOptionString(r.runtime_version)),
          KeyValue(Key_runtime_version_arn, DebugOptionString(r.runtime_version_arn))>>)

\* Lines 112-125.
init_runtime_done(r) ==
    SpanEvent("init_runtime_done",
        <<KeyValue(Key_init_type, DebugInitType(r.initialization_type)),
          KeyValue(Key_phase, DebugInitPhase(r.phase))>>)

\* Lines 126-141.
init_report(r) ==
    SpanEvent("init_report",
        <<KeyValue(Key_init_type, DebugInitType(r.initialization_type)),
          KeyValue(Key_phase, DebugInitPhase(r.phase)),
          KeyValue(Key_duration, DebugF64(r.metrics.duration_ms))>>)

\* Lines 142-148.
platform_start(r) ==
    SpanEvent("platform_start",
        <<KeyValue(Key_request_id, DebugString(r.request_id))>>)

runtime_done_misnamed(r) ==
    SpanEvent("platform_runtime_done",
        <<KeyValue(Key_request_id, DebugString(r.request_id)),
          KeyValue(Key_duration, DebugRuntimeDoneMetrics(r.metrics))>>)

\* Lines 149-162.
runtime_done(r) ==
    SpanEvent("runtime_done",
        <<KeyValue(Key_request_id, DebugString(r.request_id)),
          KeyValue(Key_duration, DebugRuntimeDoneMetrics(r.metrics))>>)

\* Lines 163-176.
platform_report(r) ==
    SpanEvent("platform_report",
        <<KeyValue(Key_request_id, DebugString(r.request_id)),
          KeyValue(Key_duration, DebugF64(r.metrics.duration_ms))>>)

unhandled_event_split(event) ==
    SpanEvent("unhandled_event",
        <<KeyValue(Key_event, event.time),
          KeyValue(Key_event, DebugEvent(event))>>)

\* Lines 177-183.
unhandled_event(event) ==
    SpanEvent("unhandled_event", <<KeyValue(Key_event, DebugEvent(event))>>)

\* The match itself.
translate(event) ==
    LET r == event.record IN
    CASE r.variant = "Function" -> function_log(r.text)
      [] r.variant = "PlatformInitStart" -> init_start(r)
      [] r.variant = "PlatformInitRuntimeDone" -> init_runtime_done(r)
      [] r.variant = "PlatformInitReport" -> init_report(r)
      [] r.variant = "PlatformStart" -> platform_start(r)
      [] r.variant = "PlatformRuntimeDone" -> runtime_done(r)
      [] r.variant = "PlatformReport" -> platform_report(r)
      [] OTHER -> unhandled_event(event)

----------------------------------------------------------------------------
(* Inputs: the log texts given to parse_function_log and the telemetry     *)
(* records the host delivers.                                               *)

\* The texts of section 8 of the specification, abbreviated to p.. and ..s:
\* `p {"a":"1","b":"2"} s`, `oops {not json`, and a text without a brace.
Obj_a1_b2 == <<"{", "\"", "a", "\"", ":", "\"", "1", "\"", ",",
               "\"", "b", "\"", ":", "\"", "2", "\"", "}">>
Log_prefix_suffix == <<"p", " ">> \o Obj_a1_b2 \o <<" ", "s">>
Log_not_json == <<"o", "o", "p", "s", " ", "{", "n", "o", "t", " ", "j", "s", "o", "n">>
Log_plain == <<"p", "s">>
Log_json == <<"p">> \o <<"{", "\"", "a", "\"", ":", "\"", "1", "\"", "}">>

\* Objects that are valid JSON: the one of section 8, the empty one, one with
\* a number, and one with a repeated key, a nested object and inner blanks.
Objects ==
    { Obj_a1_b2,
      <<"{", "}">>,
      <<"{", "\"", "a", "\"", ":", "1", "0", "}">>,
      <<"{", " ", "\"", "b", "\"", ":", "{", "\"", "a", "\"", ":", "n", "u", "l", "l", "}",
        ",", "\"", "a", "\"", " ", ":", "\"", "1", "\"", ",", "\"", "b", "\"", ":", "2", " ", "}">> }

RECURSIVE Flatten(_)
Flatten(ss) == IF ss = <<>> THEN <<>> ELSE Head(ss) \o Flatten(Tail(ss))

SeqsUpTo(S, n) == UNION {[1..k -> S] : k \in 0..n}

Frags == { <<"p">>, <<" ">>, <<"{">>, <<"}">>, <<"\"", "a", "\"">>,
           <<":">>, <<",">>, <<"1">>, <<"\"">> }
PrefixChars == {"p", " ", "}", "\"", "1"}
SuffixChars == PrefixChars \cup {"{", "s"}

Prefixes == SeqsUpTo(PrefixChars, MaxAffix)
Suffixes == SeqsUpTo(SuffixChars, MaxAffix)

\* The texts parse_function_log is tried on: every run of at most MaxFrags
\* fragments, every object of Objects between a prefix and a suffix, and the
\* texts of section 8.
IsText(t) ==
    \/ \E f \in SeqsUpTo(Frags, MaxFrags) : t = Flatten(f)
    \/ \E p \in Prefixes, o \in Objects, q \in Suffixes : t = p \o o \o q
    \/ t \in {Log_prefix_suffix, Log_not_json, Log_plain, Log_json}

Time0 == <<"T", "0">>
NoneString == [some |-> FALSE, v |-> <<>>]
SomeString(v) == [some |-> TRUE, v |-> v]

LambdaTelemetry(r) == [time |-> Time0, record |-> r]

Function(text) == [variant |-> "Function", text |-> text]
PlatformInitStart ==
    [variant |-> "PlatformInitStart", initialization_type |-> "OnDemand",
     phase |-> "Init", runtime_version |-> SomeString(<<"v", "1">>),
     runtime_version_arn |-> NoneString]
PlatformInitRuntimeDone ==
    [variant |-> "PlatformInitRuntimeDone", initialization_type |-> "SnapStart",
     phase |-> "Invoke"]
PlatformInitReport ==
    [variant |-> "PlatformInitReport", initialization_type |-> "OnDemand",
     phase |-> "Init", metrics |-> [duration_ms |-> 15]]
PlatformStart == [variant |-> "PlatformStart", request_id |-> <<"r", "1">>]
PlatformRuntimeDone ==
    [variant |-> "PlatformRuntimeDone", request_id |-> <<"r", "1">>,
     metrics |-> [some |-> TRUE, duration_ms |-> 15]]
PlatformReport ==
    [variant |-> "PlatformReport", request_id |-> <<"r", "\"">>,
     metrics |-> [duration_ms |-> 20]]
Extension == [variant |-> "Extension", text |-> <<"x">>]
PlatformLogsDropped == [variant |-> "PlatformLogsDropped", reason |-> <<"x">>]

Matched == {"Function", "PlatformInitStart", "PlatformInitRuntimeDone",
            "PlatformInitReport", "PlatformStart", "PlatformRuntimeDone",
            "PlatformReport"}

Records ==
    {LambdaTelemetry(r) : r \in
        {Function(Log_json), Function(Log_not_json), PlatformInitStart,
         PlatformInitRuntimeDone, PlatformInitReport, PlatformStart,
         PlatformRuntimeDone, PlatformReport, Extension, PlatformLogsDropped}}

ConcRecords ==
    {LambdaTelemetry(r) : r \in {Function(Log_not_json), Extension}}

Batches(R) == SeqsUpTo(R, MaxBatch)

Handlers == {1, 2}

----------------------------------------------------------------------------
(* main (lines 34-55).                                                      *)

Init ==
    /\ pcMain = "start"
    /\ init_result = "none"
    /\ provider = "Uninitialized"
    /\ installs = 0
    /\ shutdowns = 0
    /\ extension_result = "none"
    /\ invocations = 0
    /\ hpc = [h \in Handlers |-> "idle"]
    /\ events = [h \in Handlers |-> <<>>]
    /\ rest = [h \in Handlers |-> <<>>]
    /\ cx = [h \in Handlers |-> 0]
    /\ spans = <<>>
    /\ record = <<>>
    /\ attributes = <<>>
    /\ parsed = FALSE

\* Lines 57-78: init_opentelemetry builds the pipeline; install_batch(..)?
\* hands an exporter error back to the caller.
init_opentelemetry ==
    /\ pcMain = "start"
    /\ \E r \in {"Ok", "Err"} : init_result' = r
    /\ pcMain' = "expect"
    /\ UNCHANGED <<provider, installs, shutdowns, extension_result>>
    /\ UNCHANGED <<handlerVars, parseVars>>

unwrap_or_continue ==
    /\ pcMain = "expect"
    /\ pcMain' = "install"
    /\ UNCHANGED <<init_result, provider, installs, shutdowns, extension_result>>
    /\ UNCHANGED <<handlerVars, parseVars>>

\* Line 42: .expect(..) panics on Err, which ends the process; on Ok the
\* provider is bound to tracer_provider.
expect ==
    /\ pcMain = "expect"
    /\ pcMain' = IF init_result = "Err" THEN "aborted" ELSE "install"
    /\ UNCHANGED <<init_result, provider, installs, shutdowns, extension_result>>
    /\ UNCHANGED <<handlerVars, parseVars>>

\* Line 43: global::set_tracer_provider.
SetTracerProvider ==
    /\ pcMain = "install"
    /\ provider' = "Active"
    /\ installs' = installs + 1
    /\ pcMain' = "run"
    /\ UNCHANGED <<init_result, shutdowns, extension_result>>
    /\ UNCHANGED <<handlerVars, parseVars>>

\* Lines 45-50: the service is handed to the extension and run() is polled;
\* from here on the extension's telemetry listener may call handler.
RunExtension ==
    /\ pcMain = "run"
    /\ pcMain' = "running"
    /\ UNCHANGED <<init_result, provider, installs, shutdowns, extension_result>>
    /\ UNCHANGED <<handlerVars, parseVars>>

\* Line 51: run().await resolves, with either result.
RunReturns ==
    /\ pcMain = "running"
    /\ \E r \in {"Ok", "Err"} : extension_result' = r
    /\ pcMain' = "shutdown"
    /\ UNCHANGED <<init_result, provider, installs, shutdowns>>
    /\ UNCHANGED <<handlerVars, parseVars>>

\* Line 54: global::shutdown_tracer_provider is entered ...
ShutdownBegin ==
    /\ pcMain = "shutdown"
    /\ provider' = "ShuttingDown"
    /\ shutdowns' = shutdowns + 1
    /\ pcMain' = "flushing"
    /\ UNCHANGED <<init_result, installs, extension_result>>
    /\ UNCHANGED <<handlerVars, parseVars>>

\* ... and returns after the flush; main returns and the process exits.
ShutdownEnd ==
    /\ pcMain = "flushing"
    /\ provider' = "Terminated"
    /\ pcMain' = "done"
    /\ UNCHANGED <<init_result, installs, shutdowns, extension_result>>
    /\ UNCHANGED <<handlerVars, parseVars>>

----------------------------------------------------------------------------
(* handler (lines 79-189).  It is called by the extension's telemetry       *)
(* listener, on a task of the multi-threaded runtime that is not main's:    *)
(* main neither stops nor joins that task before line 54, so calls are      *)
(* bounded by the life of the process only.                                 *)

ServiceLive == pcMain \in {"running", "shutdown", "flushing"}

NewSpan == [name |-> "handler", events |-> <<>>, state |-> "open"]

add_event_front(span, ev) == [span EXCEPT !.events = <<ev>> \o @]

\* Span::add_event, as handler's calls reach the span.
add_event(span, ev) == [span EXCEPT !.events = Append(@, ev)]

current_span(h) == Len(spans)

\* Line 84: the span of the context in_span passed to this closure.
span_of(h) == cx[h]

\* Lines 79-81: the call arrives with its batch and fetches the tracer.
HandlerCall(h, batch) ==
    /\ ServiceLive
    /\ hpc[h] = "idle"
    /\ invocations < MaxInvocations
    /\ invocations' = invocations + 1
    /\ events' = [events EXCEPT ![h] = batch]
    /\ rest' = [rest EXCEPT ![h] = batch]
    /\ hpc' = [hpc EXCEPT ![h] = "called"]
    /\ UNCHANGED <<cx, spans>>
    /\ UNCHANGED <<mainVars, parseVars>>

\* Lines 83-84: in_span starts a span and runs the closure with its context.
HandlerInSpan(h) ==
    /\ ServiceLive
    /\ hpc[h] = "called"
    /\ spans' = Append(spans, NewSpan)
    /\ cx' = [cx EXCEPT ![h] = Len(spans) + 1]
    /\ hpc' = [hpc EXCEPT ![h] = "in_span"]
    /\ UNCHANGED <<invocations, events, rest>>
    /\ UNCHANGED <<mainVars, parseVars>>

\* Lines 85-185: one iteration of the for loop.
HandlerAddEvent(h) ==
    /\ ServiceLive
    /\ hpc[h] = "in_span"
    /\ rest[h] # <<>>
    /\ spans' = [spans EXCEPT ![span_of(h)] = add_event(@, translate(Head(rest[h])))]
    /\ rest' = [rest EXCEPT ![h] = Tail(@)]
    /\ UNCHANGED <<invocations, hpc, events, cx>>
    /\ UNCHANGED <<mainVars, parseVars>>

HandlerEndSpanEarly(h) ==
    /\ ServiceLive
    /\ hpc[h] = "in_span"
    /\ spans[cx[h]].state = "open"
    /\ spans' = [spans EXCEPT ![cx[h]].state = "ended"]
    /\ hpc' = [hpc EXCEPT ![h] = IF rest[h] = <<>> THEN "ended" ELSE @]
    /\ UNCHANGED <<invocations, events, rest, cx>>
    /\ UNCHANGED <<mainVars, parseVars>>

\* Line 186: the loop is exhausted, the closure returns and in_span ends the span.
HandlerEndSpan(h) ==
    /\ ServiceLive
    /\ hpc[h] = "in_span"
    /\ rest[h] = <<>>
    /\ spans' = [spans EXCEPT ![cx[h]].state = "ended"]
    /\ hpc' = [hpc EXCEPT ![h] = "ended"]
    /\ UNCHANGED <<invocations, events, rest, cx>>
    /\ UNCHANGED <<mainVars, parseVars>>

\* Line 188: Ok(()).
HandlerReturn(h) ==
    /\ ServiceLive
    /\ hpc[h] = "ended"
    /\ hpc' = [hpc EXCEPT ![h] = "returned"]
    /\ UNCHANGED <<invocations, events, rest, cx, spans>>
    /\ UNCHANGED <<mainVars, parseVars>>

\* The caller takes the result and drops the call; the ended span's data now
\* belongs to the export pipeline.
HandlerDone(h) ==
    /\ ServiceLive
    /\ hpc[h] = "returned"
    /\ hpc' = [hpc EXCEPT ![h] = "idle"]
    /\ events' = [events EXCEPT ![h] = <<>>]
    /\ spans' = [spans EXCEPT ![cx[h]] = [NewSpan EXCEPT !.state = "exported"]]
    /\ cx' = [cx EXCEPT ![h] = 0]
    /\ UNCHANGED <<invocations, rest>>
    /\ UNCHANGED <<mainVars, parseVars>>

Main ==
    \/ init_opentelemetry
    \/ expect
    \/ SetTracerProvider
    \/ RunExtension
    \/ RunReturns
    \/ ShutdownBegin
    \/ ShutdownEnd

Handler(h, R) ==
    \/ \E batch \in Batches(R) : HandlerCall(h, batch)
    \/ HandlerInSpan(h)
    \/ HandlerAddEvent(h)
    \/ HandlerEndSpan(h)
    \/ HandlerReturn(h)
    \/ HandlerDone(h)

\* One call at a time, every kind of record.
Next == Main \/ Handler(1, Records)

Spec == Init /\ [][Next]_vars

\* Calls on two tasks at once, two kinds of record.
NextConc == Main \/ \E h \in Handlers : Handler(h, ConcRecords)

SpecConc == Init /\ [][NextConc]_vars

----------------------------------------------------------------------------
(* parse_function_log on its own, over every text of IsText.                *)

InitParse ==
    /\ pcMain = "start"
    /\ init_result = "none"
    /\ provider = "Uninitialized"
    /\ installs = 0
    /\ shutdowns = 0
    /\ extension_result = "none"
    /\ invocations = 0
    /\ hpc = [h \in Handlers |-> "idle"]
    /\ events = [h \in Handlers |-> <<>>]
    /\ rest = [h \in Handlers |-> <<>>]
    /\ cx = [h \in Handlers |-> 0]
    /\ spans = <<>>
    /\ IsText(record)
    /\ attributes = <<>>
    /\ parsed = FALSE

ParseLog ==
    /\ ~parsed
    /\ attributes' = parse_function_log(record)
    /\ parsed' = TRUE
    /\ UNCHANGED record
    /\ UNCHANGED <<mainVars, handlerVars>>

NextParse == ParseLog

SpecParse == InitParse /\ [][NextParse]_vars

----------------------------------------------------------------------------
(* Properties.                                                              *)

Active(h) == hpc[h] \in {"in_span", "ended", "returned"}
Closed(h) == hpc[h] \in {"ended", "returned"}
SpanEvents(h) == spans[cx[h]].events
Consumed(h) == Len(events[h]) - Len(rest[h])

\* C1: the span of a batch of N records gets exactly N events, the i-th event
\* being the translation of the i-th record: while the loop runs the span
\* holds the translations of the records consumed so far, in order, and once
\* the span is closed it holds one per record of the batch.
C1_OneEventPerRecordInOrder ==
    \A h \in Handlers :
        Active(h) =>
            /\ Len(SpanEvents(h)) = Consumed(h)
            /\ \A i \in 1..Consumed(h) : SpanEvents(h)[i] = translate(events[h][i])
            /\ Closed(h) => Len(SpanEvents(h)) = Len(events[h])

C1_Witness ==
    \E h \in Handlers :
        /\ hpc[h] = "ended"
        /\ Len(events[h]) >= 2
        /\ events[h][1].record = Function(Log_not_json)
        /\ events[h][2].record.variant = "PlatformStart"
        /\ Len(SpanEvents(h)) = Len(events[h])

AttrsA1B2 == <<KeyValue(<<"a">>, <<"1">>), KeyValue(<<"b">>, <<"2">>)>>

AllWhitespace(q) == \A i \in 1..Len(q) : q[i] \in Whitespace

IsErrorFallback(attrs, text) ==
    /\ Len(attrs) = 2
    /\ attrs[1].key = Key_error
    /\ attrs[2] = KeyValue(Key_raw_log, text)

HasBrace(t) == \E i \in 1..Len(t) : t[i] = "{"

FromFirstBrace(t) ==
    LET i == CHOOSE k \in 1..Len(t) : t[k] = "{" /\ \A l \in 1..(k - 1) : t[l] # "{"
    IN SubSeq(t, i, Len(t))

\* The text is a prefix without `{`, then {"a":"1","b":"2"}, then a suffix.
EmbedsObj(t) ==
    /\ HasBrace(t)
    /\ Len(FromFirstBrace(t)) >= Len(Obj_a1_b2)
    /\ SubSeq(FromFirstBrace(t), 1, Len(Obj_a1_b2)) = Obj_a1_b2

SuffixOf(t) == SubSeq(FromFirstBrace(t), Len(Obj_a1_b2) + 1, Len(FromFirstBrace(t)))

\* C2 as stated: for the object {"a":"1","b":"2"} with any text before it and
\* any text after it, parse_function_log yields exactly a="1" and b="2".
C2_SuffixIgnored ==
    (parsed /\ EmbedsObj(record)) => attributes = AttrsA1B2

\* C2 amended: the text before the first `{` is ignored, and so is whitespace
\* after the closing `}`: the result is then exactly a="1" and b="2".  When
\* anything other than whitespace follows the object, the result is the
\* fallback of two attributes, error and raw_log, raw_log being the whole text.
C2_OnlyTrailingWhitespaceIgnored ==
    (parsed /\ EmbedsObj(record)) =>
        IF AllWhitespace(SuffixOf(record)) THEN attributes = AttrsA1B2
        ELSE IsErrorFallback(attributes, record)

C2_Witness ==
    /\ parsed
    /\ record = Log_prefix_suffix
    /\ IsErrorFallback(attributes, Log_prefix_suffix)

\* C3: the provider goes Uninitialized -> Active -> ShuttingDown -> Terminated;
\* it is installed exactly once, before the first call of handler; shutdown is
\* invoked exactly once, after run has returned; and no batch is being handled
\* once shutdown has begun.
C3_Lifecycle ==
    [][ /\ provider' # provider =>
              <<provider, provider'>> \in
                  { <<"Uninitialized", "Active">>, <<"Active", "ShuttingDown">>,
                    <<"ShuttingDown", "Terminated">> }
        /\ installs' <= 1
        /\ invocations' > 0 => installs' = 1
        /\ shutdowns' <= 1
        /\ shutdowns' = 1 => extension_result' # "none"
        /\ pcMain' = "done" => shutdowns' = 1
        /\ provider' \in {"ShuttingDown", "Terminated"} =>
              \A h \in Handlers : hpc'[h] = "idle" ]_vars

\* C4: each call opens exactly one span; the span is closed only when every
\* record of the batch has its event on it; the call returns only with its
\* span closed; and a closed span gets no further event.
C4_State ==
    /\ Len(spans) = invocations - Cardinality({h \in Handlers : hpc[h] = "called"})
    /\ \A h \in Handlers :
          Active(h) =>
              /\ cx[h] \in 1..Len(spans)
              /\ \A g \in Handlers \ {h} : Active(g) => cx[g] # cx[h]
              /\ spans[cx[h]].state = "ended" =>
                    rest[h] = <<>> /\ Len(SpanEvents(h)) = Len(events[h])
              /\ hpc[h] = "returned" => spans[cx[h]].state = "ended"

C4_Step ==
    \A id \in 1..Len(spans) :
        spans[id].state = "ended" =>
            \/ spans'[id].events = spans[id].events
            \/ spans'[id].state = "exported"

C4_OneSpanClosedAfterLastEvent == [][C4_State' /\ C4_Step]_vars

C4_Witness ==
    \E h \in Handlers :
        /\ hpc[h] = "returned"
        /\ Len(events[h]) >= 2
        /\ spans[cx[h]].state = "ended"
        /\ Len(SpanEvents(h)) = Len(events[h])

\* C5: with calls interleaved, the span of a call holds only events translated
\* from that call's own batch, and no two calls in progress share a span.
C5_SpansSelfContained ==
    \A h \in Handlers :
        Active(h) =>
            /\ \A g \in Handlers \ {h} : Active(g) => cx[g] # cx[h]
            /\ Len(SpanEvents(h)) <= Consumed(h)
            /\ \A i \in 1..Len(SpanEvents(h)) :
                  \E j \in 1..Len(events[h]) :
                      SpanEvents(h)[i] = translate(events[h][j])

C5_Witness ==
    /\ hpc[1] = "in_span" /\ hpc[2] = "in_span"
    /\ events[1] # <<>> /\ events[2] # <<>>
    /\ \A i \in 1..Len(events[1]), j \in 1..Len(events[2]) :
          events[1][i] # events[2][j]
    /\ SpanEvents(1) # <<>> /\ SpanEvents(2) # <<>>
    /\ rest[1] # <<>> /\ rest[2] # <<>>

\* C6: a record of a variant no arm matches gives exactly one event, named
\* unhandled_event, with exactly one attribute holding the dump of the record;
\* the records around it keep their own events and those after it are still
\* processed.
C6_UnhandledEvent ==
    \A h \in Handlers :
        (Active(h) /\ \E k \in 1..Len(events[h]) : events[h][k].record.variant \notin Matched) =>
            /\ Closed(h) => Len(SpanEvents(h)) = Len(events[h])
            /\ \A i \in 1..Len(SpanEvents(h)) :
                  IF events[h][i].record.variant \notin Matched
                  THEN /\ SpanEvents(h)[i].name = "unhandled_event"
                       /\ Len(SpanEvents(h)[i].attributes) = 1
                       /\ SpanEvents(h)[i].attributes[1].value = DebugEvent(events[h][i])
                  ELSE /\ SpanEvents(h)[i].name # "unhandled_event"
                       /\ SpanEvents(h)[i] = translate(events[h][i])

C6_Witness ==
    \E h \in Handlers :
        /\ hpc[h] = "ended"
        /\ Len(events[h]) = 2
        /\ events[h][1].record.variant = "Extension"
        /\ events[h][2].record.variant = "PlatformReport"
        /\ SpanEvents(h)[1].name = "unhandled_event"
        /\ SpanEvents(h)[2].name = "platform_report"

\* C7: when init_opentelemetry returns an error the process aborts at startup:
\* the provider is never installed, the extension never run, handler never
\* called.
C7_InitFailureAborts ==
    init_result = "Err" =>
        /\ pcMain \in {"expect", "aborted"}
        /\ provider = "Uninitialized"
        /\ installs = 0
        /\ extension_result = "none"
        /\ invocations = 0
        /\ \A h \in Handlers : hpc[h] = "idle"
        /\ spans = <<>>

C7_Witness == init_result = "Err" /\ pcMain = "aborted"

\* C8: for a text with a `{` whose part from the first `{` on is not JSON, the
\* result is exactly two attributes, error and raw_log, raw_log being the
\* whole text, prefix included.
C8_MalformedJsonFallback ==
    (parsed /\ HasBrace(record) /\ ~from_str(FromFirstBrace(record)).ok) =>
        /\ Len(attributes) = 2
        /\ attributes[1].key = Key_error
        /\ attributes[2].key = Key_raw_log
        /\ attributes[2].value = record

C8_Witness ==
    /\ parsed
    /\ record = Log_not_json
    /\ Len(attributes) = 2
    /\ attributes[2] = KeyValue(Key_raw_log, Log_not_json)

\* C9: for a text without any `{`, the empty text included, the result is
\* exactly one attribute, raw_log, whose value is the text.
C9_NoBraceFallback ==
    (parsed /\ ~HasBrace(record)) => attributes = <<KeyValue(Key_raw_log, record)>>

C9_Witness ==
    /\ parsed
    /\ record = <<" ", "}">>
    /\ attributes = <<KeyValue(Key_raw_log, <<" ", "}">>)>>

\* The dispatch table of section 4.2.
DispatchName(v) ==
    CASE v = "Function" -> "function_log"
      [] v = "PlatformInitStart" -> "init_start"
      [] v = "PlatformInitRuntimeDone" -> "init_runtime_done"
      [] v = "PlatformInitReport" -> "init_report"
      [] v = "PlatformStart" -> "platform_start"
      [] v = "PlatformRuntimeDone" -> "runtime_done"
      [] v = "PlatformReport" -> "platform_report"

DispatchKeys(v) ==
    CASE v = "PlatformInitStart" ->
            <<Key_init_type, Key_phase, Key_runtime_version, Key_runtime_version_arn>>
      [] v = "PlatformInitRuntimeDone" -> <<Key_init_type, Key_phase>>
      [] v = "PlatformInitReport" -> <<Key_init_type, Key_phase, Key_duration>>
      [] v = "PlatformStart" -> <<Key_request_id>>
      [] v = "PlatformRuntimeDone" -> <<Key_request_id, Key_duration>>
      [] v = "PlatformReport" -> <<Key_request_id, Key_duration>>

KeysOf(attrs) == [i \in 1..Len(attrs) |-> attrs[i].key]

\* C10: the name and the attribute keys of the event of a record of a matched
\* variant are those of the dispatch table, and two equal records of a batch
\* get equal events.
C10_DispatchTable ==
    \A h \in Handlers :
        Active(h) =>
            \A i \in 1..Len(SpanEvents(h)) :
                LET v == events[h][i].record.variant IN
                /\ v \in Matched =>
                      /\ SpanEvents(h)[i].name = DispatchName(v)
                      /\ v # "Function" =>
                            KeysOf(SpanEvents(h)[i].attributes) = DispatchKeys(v)
                /\ \A j \in 1..Len(SpanEvents(h)) :
                      events[h][j] = events[h][i] => SpanEvents(h)[j] = SpanEvents(h)[i]

C10_Witness ==
    \E h \in Handlers :
        /\ hpc[h] = "ended"
        /\ Len(events[h]) = 2
        /\ events[h][1].record.variant = "PlatformRuntimeDone"
        /\ events[h][2] = events[h][1]
        /\ SpanEvents(h)[2].name = "runtime_done"

====
